---- MODULE Spec2Model ----
(***************************************************************************)
(* AES-CBC + HMAC-SHA2 content encryption of josekit                        *)
(* (src/jwe/enc/aes_cbc_hmac.rs): encrypt, decrypt and calcurate_tag of     *)
(* AesCbcHmacJweEncryption, as a state machine over one encrypt call and    *)
(* the decrypt calls made with what it returned (intact, with one bit       *)
(* flipped, or forged).                                                     *)
(*                                                                          *)
(* The OpenSSL primitives are outside the crate.  They are modelled by what *)
(* the code relies on:                                                      *)
(*   - symm::encrypt / symm::decrypt: CBC chaining with PKCS#7 padding over *)
(*     a keyed, invertible 16-byte block transformation; they reject a key  *)
(*     whose length is not the cipher's, an IV that is not 16 bytes, and,   *)
(*     on decrypt, a ciphertext that is not a positive number of blocks or  *)
(*     whose padding is invalid;                                            *)
(*   - Signer (HMAC): a collision-free function of (digest, key, data).  A  *)
(*     MAC value is the pair of that term and a byte-wise XOR mask, so that *)
(*     truncation, length, bit flips and slice equality are all computed.   *)
(* usize is 64 bits wide (to_be_bytes gives 8 bytes).                       *)
(***************************************************************************)
EXTENDS Integers, Sequences, FiniteSets, TLC

\* ---- bounds of the model ----
MaxMsgLen == 16
MaxAadLen == 1

\* key lengths tried: each variant's required length, one less, one more, the
\* split positions, and the lengths at which the trailing sub-key fits the cipher
KeyLens == {0, 15, 16, 24, 31, 32, 33, 39, 40, 41, 47, 48, 49, 64}

Variants == {"A128CbcHS256", "A192CbcHS384", "A256CbcHS512"}

VARIABLES
    self,       \* the algorithm variant (the enum value)
    key, iv, message, aad,          \* arguments of encrypt
    encResult,  \* what encrypt returned
    mac_key, enc_key,               \* the sub-keys of the last call
    dkey, div, dct, daad, dtag,     \* arguments of decrypt
    tamper,     \* which argument of decrypt differs from encrypt's
    decResult,  \* what decrypt returned
    step

vars == <<self, key, iv, message, aad, encResult, mac_key, enc_key,
          dkey, div, dct, daad, dtag, tamper, decResult, step>>

\* ---- bytes ----
Fill(n, b) == [i \in 1..n |-> b]

Ramp(n, s) == [i \in 1..n |-> (s + i) % 256]

RECURSIVE Xor(_, _)
Xor(a, b) ==
    IF a = 0 THEN b
    ELSE IF b = 0 THEN a
    ELSE 2 * Xor(a \div 2, b \div 2) + ((a + b) % 2)

FlipBit(s, i, b) == [s EXCEPT ![i] = Xor(@, 2 ^ b)]

Min(a, b) == IF a < b THEN a ELSE b


\* ---- openssl::symm (AES in CBC mode, PKCS#7 padding) ----
BlockSize == 16

cipher(v) ==
    CASE v = "A128CbcHS256" -> "aes_128_cbc"
      [] v = "A192CbcHS384" -> "aes_192_cbc"
      [] v = "A256CbcHS512" -> "aes_256_cbc"

key_len(t) ==
    CASE t = "aes_128_cbc" -> 16
      [] t = "aes_192_cbc" -> 24
      [] t = "aes_256_cbc" -> 32

\* the keyed block transformation and its inverse
BlockEnc(k, b) ==
    [i \in 1..BlockSize |-> (b[i] + k[i] + k[Len(k) - BlockSize + i]) % 256]

BlockDec(k, c) ==
    [i \in 1..BlockSize |-> (c[i] + 512 - k[i] - k[Len(k) - BlockSize + i]) % 256]

XorBlock(a, b) == [i \in 1..BlockSize |-> Xor(a[i], b[i])]

Pkcs7Pad(data) ==
    LET n == BlockSize - (Len(data) % BlockSize) IN data \o Fill(n, n)

Pkcs7Valid(p) ==
    /\ Len(p) >= BlockSize
    /\ LET n == p[Len(p)] IN
        /\ n >= 1
        /\ n <= BlockSize
        /\ \A i \in (Len(p) - n + 1)..Len(p) : p[i] = n

Pkcs7Unpad(p) == SubSeq(p, 1, Len(p) - p[Len(p)])

RECURSIVE CbcEnc(_, _, _)
CbcEnc(k, prev, data) ==
    IF data = <<>> THEN <<>>
    ELSE LET c == BlockEnc(k, XorBlock(SubSeq(data, 1, BlockSize), prev))
         IN c \o CbcEnc(k, c, SubSeq(data, BlockSize + 1, Len(data)))

RECURSIVE CbcDec(_, _, _)
CbcDec(k, prev, data) ==
    IF data = <<>> THEN <<>>
    ELSE LET c == SubSeq(data, 1, BlockSize)
         IN XorBlock(BlockDec(k, c), prev)
                \o CbcDec(k, c, SubSeq(data, BlockSize + 1, Len(data)))

\* symm::encrypt(cipher, key, Some(iv), data): Err on a key or IV of the
\* wrong length
symm_encrypt(t, k, v, data) ==
    IF Len(k) # key_len(t) \/ Len(v) # BlockSize
    THEN [ok |-> FALSE, data |-> <<>>]
    ELSE [ok |-> TRUE, data |-> CbcEnc(k, v, Pkcs7Pad(data))]

\* symm::decrypt(cipher, key, Some(iv), data): Err also on a ciphertext that
\* is not a positive number of blocks or whose padding is invalid
symm_decrypt(t, k, v, data) ==
    IF Len(k) # key_len(t) \/ Len(v) # BlockSize
    THEN [ok |-> FALSE, data |-> <<>>]
    ELSE IF Len(data) = 0 \/ Len(data) % BlockSize # 0
    THEN [ok |-> FALSE, data |-> <<>>]
    ELSE LET p == CbcDec(k, v, data) IN
         IF Pkcs7Valid(p)
         THEN [ok |-> TRUE, data |-> Pkcs7Unpad(p)]
         ELSE [ok |-> FALSE, data |-> <<>>]

\* ---- openssl::sign::Signer over an HMAC key ----
digest_len(md) ==
    CASE md = "sha256" -> 32
      [] md = "sha384" -> 48
      [] md = "sha512" -> 64

\* sign_to_vec(): the MAC of everything fed by update(), under pkey
sign_to_vec(md, pkey, data) ==
    [mac |-> [md |-> md, key |-> pkey, data |-> data],
     mask |-> Fill(digest_len(md), 0)]

\* Vec::truncate(n)
truncate(sig, n) == [sig EXCEPT !.mask = SubSeq(@, 1, Min(n, Len(@)))]

TagLen(t) == Len(t.mask)

NoTag == [mac |-> [md |-> "none", key |-> <<>>, data |-> <<>>], mask |-> <<>>]

RECURSIVE ShiftRight8(_, _)
ShiftRight8(n, k) == IF k = 0 THEN n ELSE ShiftRight8(n \div 256, k - 1)

\* usize::to_be_bytes
to_be_bytes(n) == [i \in 1..8 |-> ShiftRight8(n, 8 - i) % 256]

\* ---- AesCbcHmacJweEncryption ----
message_digest(v) ==
    CASE v = "A128CbcHS256" -> "sha256"
      [] v = "A192CbcHS384" -> "sha384"
      [] v = "A256CbcHS512" -> "sha512"

tlen(v) ==
    CASE v = "A128CbcHS256" -> 16
      [] v = "A192CbcHS384" -> 24
      [] v = "A256CbcHS512" -> 32

content_encryption_key_len(v) ==
    CASE v = "A128CbcHS256" -> 16 + 16
      [] v = "A192CbcHS384" -> 24 + 16
      [] v = "A256CbcHS512" -> 32 + 16

iv_len == 16

\* the bytes the signer is fed, in order
mac_input(a, v, ciphertext) == a \o v \o ciphertext \o to_be_bytes(Len(a))

\* calcurate_tag with the signature left at the digest's full length
calcurate_tag_untruncated(v, a, i, ciphertext, mk, pkeyFails, signFails) ==
    IF pkeyFails THEN [kind |-> "InvalidKeyFormat", tag |-> NoTag]
    ELSE IF signFails THEN [kind |-> "InvalidSignature", tag |-> NoTag]
    ELSE [kind |-> "Ok",
          tag |-> sign_to_vec(message_digest(v), mk, mac_input(a, i, ciphertext))]

\* calcurate_tag with both closures mapped to InvalidKeyFormat
calcurate_tag_one_kind(v, a, i, ciphertext, mk, pkeyFails, signFails) ==
    IF pkeyFails \/ signFails THEN [kind |-> "InvalidKeyFormat", tag |-> NoTag]
    ELSE [kind |-> "Ok",
          tag |-> truncate(sign_to_vec(message_digest(v), mk,
                                       mac_input(a, i, ciphertext)),
                           tlen(v))]

\* pkeyFails: PKey::hmac returns Err; signFails: a Signer call returns Err
calcurate_tag(v, a, i, ciphertext, mk, pkeyFails, signFails) ==
    IF pkeyFails THEN [kind |-> "InvalidKeyFormat", tag |-> NoTag]
    ELSE IF signFails THEN [kind |-> "InvalidSignature", tag |-> NoTag]
    ELSE [kind |-> "Ok",
          tag |-> truncate(sign_to_vec(message_digest(v), mk,
                                       mac_input(a, i, ciphertext)),
                           tlen(v))]

split_pos(v) == content_encryption_key_len(v) - 16

\* &key[0..split_pos] and &key[split_pos..] panic on a key shorter than
\* split_pos
SlicePanics(v, k) == Len(k) < split_pos(v)

MacKeyOf(v, k) == SubSeq(k, 1, split_pos(v))

EncKeyOf(v, k) == SubSeq(k, split_pos(v) + 1, Len(k))

\* cause: the step at which the call ended ("none": it returned Ok)
encrypt(v, k, i, m, a, pkeyFails, signFails) ==
    IF SlicePanics(v, k)
    THEN [kind |-> "Panic", cause |-> "slice", ct |-> <<>>, tag |-> NoTag]
    ELSE LET em == symm_encrypt(cipher(v), EncKeyOf(v, k), i, m) IN
         IF ~em.ok
         THEN [kind |-> "InvalidKeyFormat", cause |-> "cipher",
               ct |-> <<>>, tag |-> NoTag]
         ELSE LET t == calcurate_tag(v, a, i, m, MacKeyOf(v, k),
                                     pkeyFails, signFails) IN
              IF t.kind # "Ok"
              THEN [kind |-> t.kind,
                    cause |-> IF pkeyFails THEN "pkey" ELSE "sign",
                    ct |-> <<>>, tag |-> NoTag]
              ELSE [kind |-> "Ok", cause |-> "none",
                    ct |-> em.data, tag |-> t.tag]

decrypt(v, k, i, encrypted_message, a, tag, pkeyFails, signFails) ==
    IF SlicePanics(v, k)
    THEN [kind |-> "Panic", cause |-> "slice", message |-> <<>>]
    ELSE LET dm == symm_decrypt(cipher(v), EncKeyOf(v, k), i, encrypted_message) IN
         IF ~dm.ok
         THEN [kind |-> "InvalidKeyFormat", cause |-> "cipher", message |-> <<>>]
         ELSE LET t == calcurate_tag(v, a, i, dm.data, MacKeyOf(v, k),
                                     pkeyFails, signFails) IN
              IF t.kind # "Ok"
              THEN [kind |-> "InvalidSignature",
                    cause |-> IF pkeyFails THEN "pkey" ELSE "sign",
                    message |-> <<>>]
              ELSE IF t.tag # tag
              THEN [kind |-> "InvalidSignature", cause |-> "tag", message |-> <<>>]
              ELSE [kind |-> "Ok", cause |-> "none", message |-> dm.data]


\* ---- the inputs tried ----
Keys == {Ramp(n, 0) : n \in KeyLens}

Ivs == {Ramp(n, 100) : n \in (iv_len - 1)..(iv_len + 1)}

Messages == {Fill(n, 3) : n \in 0..MaxMsgLen}

Aads == {Fill(n, 104) : n \in 0..MaxAadLen}

NoEnc == [kind |-> "None", cause |-> "none", ct |-> <<>>, tag |-> NoTag]

NoDec == [kind |-> "None", cause |-> "none", message |-> <<>>]

\* a tag that is no MAC of anything
RawTag(n) == [NoTag EXCEPT !.mask = Fill(n, 0)]

Init ==
    /\ self \in Variants
    /\ key \in Keys
    /\ iv \in Ivs
    /\ message \in Messages
    /\ aad \in Aads
    /\ encResult = NoEnc
    /\ mac_key = <<>>
    /\ enc_key = <<>>
    /\ dkey = <<>>
    /\ div = <<>>
    /\ dct = <<>>
    /\ daad = <<>>
    /\ dtag = NoTag
    /\ tamper = "none"
    /\ decResult = NoDec
    /\ step = "start"

\* one call of encrypt(key, iv, message, aad)
Encrypt ==
    /\ step = "start"
    /\ \E pkeyFails \in BOOLEAN, signFails \in BOOLEAN :
        encResult' = encrypt(self, key, iv, message, aad, pkeyFails, signFails)
    /\ mac_key' = IF SlicePanics(self, key) THEN <<>> ELSE MacKeyOf(self, key)
    /\ enc_key' = IF SlicePanics(self, key) THEN <<>> ELSE EncKeyOf(self, key)
    /\ step' = "encrypted"
    /\ UNCHANGED <<self, key, iv, message, aad, dkey, div, dct, daad, dtag,
                   tamper, decResult>>

CanSend == step = "encrypted"

Sent(k, i, c, a, t, what) ==
    /\ dkey' = k
    /\ div' = i
    /\ dct' = c
    /\ daad' = a
    /\ dtag' = t
    /\ tamper' = what
    /\ step' = "ready"
    /\ UNCHANGED <<self, key, iv, message, aad, encResult, mac_key, enc_key,
                   decResult>>

\* the caller hands decrypt exactly what encrypt was given and returned
SendIntact ==
    /\ CanSend
    /\ encResult.kind = "Ok"
    /\ Sent(key, iv, encResult.ct, aad, encResult.tag, "none")

\* ... or the same with one bit flipped in exactly one of the four
FlipCiphertext ==
    /\ CanSend
    /\ encResult.kind = "Ok"
    /\ \E i \in 1..Len(encResult.ct), b \in 0..7 :
        Sent(key, iv, FlipBit(encResult.ct, i, b), aad, encResult.tag, "ciphertext")

FlipTag ==
    /\ CanSend
    /\ encResult.kind = "Ok"
    /\ \E i \in 1..TagLen(encResult.tag), b \in 0..7 :
        Sent(key, iv, encResult.ct, aad,
             [encResult.tag EXCEPT !.mask = FlipBit(@, i, b)], "tag")

FlipIv ==
    /\ CanSend
    /\ encResult.kind = "Ok"
    /\ \E i \in 1..Len(iv), b \in 0..7 :
        Sent(key, FlipBit(iv, i, b), encResult.ct, aad, encResult.tag, "iv")

FlipAad ==
    /\ CanSend
    /\ encResult.kind = "Ok"
    /\ \E i \in 1..Len(aad), b \in 0..7 :
        Sent(key, iv, encResult.ct, FlipBit(aad, i, b), encResult.tag, "aad")

\* ... or a ciphertext and a tag of the caller's own making
ForgedCiphertexts ==
    {<<>>, Fill(BlockSize - 1, 0), Fill(BlockSize, 0)}
        \cup (IF encResult.kind = "Ok" THEN {encResult.ct} ELSE {})

ForgedTags(c) ==
    {RawTag(tlen(self))}
        \cup (IF encResult.kind = "Ok"
              THEN {truncate(encResult.tag, TagLen(encResult.tag) - 1),
                    calcurate_tag(self, aad, iv, c, mac_key, FALSE, FALSE).tag}
              ELSE {})

Forge ==
    /\ CanSend
    /\ \E c \in ForgedCiphertexts :
        \E t \in ForgedTags(c) : Sent(key, iv, c, aad, t, "forged")

\* one call of decrypt(dkey, div, dct, daad, dtag)
Decrypt ==
    /\ step = "ready"
    /\ \E pkeyFails \in BOOLEAN, signFails \in BOOLEAN :
        decResult' = decrypt(self, dkey, div, dct, daad, dtag, pkeyFails, signFails)
    /\ mac_key' = IF SlicePanics(self, dkey) THEN <<>> ELSE MacKeyOf(self, dkey)
    /\ enc_key' = IF SlicePanics(self, dkey) THEN <<>> ELSE EncKeyOf(self, dkey)
    /\ step' = "decrypted"
    /\ UNCHANGED <<self, key, iv, message, aad, encResult, dkey, div, dct,
                   daad, dtag, tamper>>

Next ==
    \/ Encrypt
    \/ SendIntact
    \/ FlipCiphertext
    \/ FlipTag
    \/ FlipIv
    \/ FlipAad
    \/ Forge
    \/ Decrypt

Spec == Init /\ [][Next]_vars


\* ---- properties ----
Encrypted == step # "start"

Decrypted == step = "decrypted"

\* the primitives did not fail for reasons outside the arguments
EncNoFault == encResult.cause \notin {"pkey", "sign"}

DecNoFault == decResult.cause \notin {"pkey", "sign"}

Last(s, n) == SubSeq(s, Len(s) - n + 1, Len(s))

\* C1: round trip.  With a key of content_encryption_key_len() bytes and a
\* 16-byte IV, encrypt succeeds, and decrypt of what it returned succeeds and
\* returns the message.
C1_RoundTrip ==
    /\ (Encrypted /\ Len(key) = content_encryption_key_len(self)
            /\ Len(iv) = iv_len /\ EncNoFault)
        => encResult.kind = "Ok"
    /\ (Decrypted /\ tamper = "none" /\ DecNoFault)
        => (decResult.kind = "Ok" /\ decResult.message = message)

\* C2: tamper detection.  decrypt of encrypt's output with one bit flipped in
\* the ciphertext, the tag, the IV or the AAD fails with InvalidSignature.
C2_TamperDetected ==
    (Decrypted /\ tamper \in {"ciphertext", "tag", "iv", "aad"})
        => decResult.kind = "InvalidSignature"

\* C3: fail closed.  decrypt returns Ok only if the supplied tag equals the tag
\* computed over (aad, iv, ciphertext) with the MAC sub-key.
C3_FailClosed ==
    (Decrypted /\ decResult.kind = "Ok")
        => dtag = calcurate_tag(self, daad, div, dct, mac_key, FALSE, FALSE).tag

\* C4: key length enforcement.  With a key whose length is not
\* content_encryption_key_len(), encrypt and decrypt return InvalidKeyFormat
\* (no success, no panic).
C4_KeyLengthEnforced ==
    /\ (Encrypted /\ Len(key) # content_encryption_key_len(self))
        => encResult.kind = "InvalidKeyFormat"
    /\ (Decrypted /\ Len(dkey) # content_encryption_key_len(self))
        => decResult.kind = "InvalidKeyFormat"

\* C5: no decryption oracle.  A decrypt call that fails in the cipher step
\* returns the same error kind as a decrypt call whose cipher step succeeds
\* and whose tag does not match (here: encrypt's output with a tag that is no
\* MAC).
TagFailure ==
    decrypt(self, key, iv, encResult.ct, aad, RawTag(tlen(self)), FALSE, FALSE)

C5_NoOracle ==
    (Decrypted /\ decResult.cause = "cipher" /\ encResult.kind = "Ok"
            /\ TagFailure.cause = "tag")
        => decResult.kind = TagFailure.kind

C7_TagLength ==
    (Encrypted /\ encResult.kind = "Ok") =>
        /\ self = "A128CbcHS256" => TagLen(encResult.tag) = 16
        /\ self = "A192CbcHS384" => TagLen(encResult.tag) = 24
        /\ self = "A256CbcHS512" => TagLen(encResult.tag) = 32

C7_Witness ==
    /\ Encrypted
    /\ encResult.kind = "Ok"
    /\ self = "A192CbcHS384"
    /\ TagLen(encResult.tag) = 24
    /\ aad = <<>>
    /\ Len(message) = MaxMsgLen

\* C8: tag input layout.  The tag encrypt returns is the truncated HMAC of
\* AAD || IV || Ciphertext || AAD-length-field over the ciphertext it returns;
\* decrypt accepts only the tag over the ciphertext it was given.
C8_TagLayout ==
    /\ (Encrypted /\ encResult.kind = "Ok") =>
        encResult.tag =
            truncate(sign_to_vec(message_digest(self), MacKeyOf(self, key),
                                 aad \o iv \o encResult.ct \o to_be_bytes(Len(aad))),
                     tlen(self))
    /\ (Decrypted /\ decResult.kind = "Ok") =>
        dtag =
            truncate(sign_to_vec(message_digest(self), MacKeyOf(self, dkey),
                                 daad \o div \o dct \o to_be_bytes(Len(daad))),
                     tlen(self))

\* C9: key split.  With a key of content_encryption_key_len() bytes the MAC key
\* is its first 16 bytes and the cipher key the rest, which has the key size of
\* the variant's cipher.
C9_KeySplit ==
    (Encrypted /\ Len(key) = content_encryption_key_len(self)) =>
        /\ mac_key = SubSeq(key, 1, 16)
        /\ enc_key = SubSeq(key, 17, Len(key))
        /\ Len(enc_key) = key_len(cipher(self))

\* C10: AAD length field.  The last 8 bytes fed to the MAC are the AAD's length
\* in bits, 8 * aad.len(), big-endian.
C10_AadLengthInBits ==
    (Encrypted /\ encResult.kind = "Ok") =>
        Last(encResult.tag.mac.data, 8) = to_be_bytes(8 * Len(aad))

====
